---- MODULE Spec2Model ----
(***************************************************************************)
(* Model of early_mcp.py: the module-level token cache (get_token), the    *)
(* authenticated request dispatcher (api_request), the error formatter     *)
(* (handle_error) and the control flow of three operation handlers         *)
(* (early_get_me, early_get_tracking, early_today_summary).                *)
(*                                                                         *)
(* The handlers are asyncio coroutines running on one event loop: a task   *)
(* runs without interruption from one suspension point to the next.  The   *)
(* suspension points of the modelled code are the start of a task, the     *)
(* two awaited HTTP exchanges (client.post, client.request) and the exit   *)
(* of each "async with httpx.AsyncClient()" block (the client is closed    *)
(* with an await).  Each action below is one such uninterrupted segment.   *)
(*                                                                         *)
(* The pure parts of the module (format_duration, the aggregation loop of  *)
(* the report and the summary, the PATCH body of early_edit_time_entry)    *)
(* are operators, each applied to its inputs in a specification of its own.*)
(***************************************************************************)
EXTENDS Integers, Sequences, FiniteSets, TLC

\* ------------------------------------------------------------------ bounds
\* The clock runs from 0 to MaxTime.
MaxTime == 2

\* ------------------------------------------------------- program constants
\* timedelta(hours=1): the clock counts half hours.
Hour == 2

\* The operation calls that can be in progress at the same time: two
\* coroutines on the event loop, each running one handler call after another.
Calls == {"c1", "c2"}

\* Python's None, where a string is expected.
None == "None"
\* Python's None, where a datetime is expected (clock values are >= 0).
NoTime == -1

\* Bearer tokens the sign-in endpoint answers with (non-empty strings).
Tokens == {"tokA", "tokB"}

\* Values of the environment variables EARLY_API_KEY / EARLY_API_SECRET
\* (os.environ.get(..., "") gives "" when the variable is not set).
EnvValues == {"", "set"}

Handlers == {"early_get_me", "early_get_tracking", "early_today_summary"}

\* ------------------------------------------------------------ HTTP outcomes
\* What one awaited HTTP exchange can produce: a network-level failure
\* (httpx raises a TransportError) or a response with a status and a body.
ErrorStatuses == {404, 500}
\* Bodies of a non-2xx response: a JSON object with a "message" field, a JSON
\* object without one, or content that is not JSON.
ErrorBodies == {"msg", "nomsg", "notjson"}
\* Bodies of a 2xx response: no content, content that is not JSON, a JSON
\* object with the fields the caller reads, and the JSON object {}.
OkBodies == {"empty", "notjson", "obj", "emptyobj"}

NoResp == [t |-> "none", status |-> 0, body |-> "none", token |-> None]
TransportFailure == [t |-> "transport", status |-> 0, body |-> "none", token |-> None]
HttpResp(s, b) == [t |-> "http", status |-> s, body |-> b, token |-> None]
\* A 2xx sign-in response whose JSON body is {"token": tk}.
TokenResp(tk) == [t |-> "http", status |-> 200, body |-> "obj", token |-> tk]

ErrorResponses == {HttpResp(s, b) : s \in ErrorStatuses, b \in ErrorBodies}

SignInOutcomes ==
    {TransportFailure} \cup ErrorResponses
        \cup {TokenResp(tk) : tk \in Tokens}
        \cup {HttpResp(200, "emptyobj"), HttpResp(200, "notjson")}

ApiOutcomes ==
    {TransportFailure} \cup ErrorResponses
        \cup {HttpResp(200, b) : b \in OkBodies}
        \cup {HttpResp(204, "empty")}

IsSuccess(r) == r.t = "http" /\ r.status \in 200..299

\* --------------------------------------------------------------- exceptions
\* An exception is its class, and for httpx.HTTPStatusError the response it
\* carries (status and body).
NoExc == [cls |-> "none", status |-> 0, body |-> "none"]
Exc(c) == [cls |-> c, status |-> 0, body |-> "none"]
StatusExc(r) == [cls |-> "HTTPStatusError", status |-> r.status, body |-> r.body]

\* The classes an exception class derives from (itself included).
Bases(c) ==
    CASE c = "JSONDecodeError" -> {"JSONDecodeError", "ValueError", "Exception"}
      [] c = "ConnectError"    -> {"ConnectError", "TransportError", "Exception"}
      [] c = "none"            -> {}
      [] OTHER                 -> {c, "Exception"}

IsInstance(e, c) == c \in Bases(e.cls)

\* str(e)
Str(e) ==
    CASE e.cls = "ValueError"      -> "EARLY_API_KEY and EARLY_API_SECRET environment variables required"
      [] e.cls = "HTTPStatusError" -> "status description"
      [] e.cls = "ConnectError"    -> "transport cause"
      [] e.cls = "JSONDecodeError" -> "json parse error"
      [] e.cls = "KeyError"        -> "missing key"
      [] OTHER                     -> ""

\* ------------------------------------------------------------- handle_error
NoText == [form |-> "none", code |-> 0, msg |-> ""]
Text(f) == [form |-> f, code |-> 0, msg |-> ""]

\* Mutant of ErrorMessage: the body of the error response is not read.
ErrorMessageGeneric(e) == Str(e)

\* e.response.json().get("message", str(e)), with the bare except around it.
ErrorMessage(e) == IF e.body = "msg" THEN "body.message" ELSE Str(e)

\* "Error {status}: {msg}" for an HTTPStatusError, "Error: {str(e)}" otherwise.
handle_error(e) ==
    IF IsInstance(e, "HTTPStatusError")
    THEN [form |-> "Error <status>: <msg>", code |-> e.status, msg |-> ErrorMessage(e)]
    ELSE [form |-> "Error: <msg>", code |-> 0, msg |-> Str(e)]

\* -------------------------------------------------------------------- state
VARIABLES
    API_KEY,        \* os.environ.get("EARLY_API_KEY", ""), read once at import
    API_SECRET,     \* os.environ.get("EARLY_API_SECRET", "")
    token_cache,    \* the module-level _token_cache: [token, expires]
    clock,          \* what datetime.now() returns
    task,           \* the operation calls in progress, one record per call
    lastSignIn,     \* history: token and expiry of the last completed sign-in
    callStart,      \* history: the cache as the call in progress found it
    calc            \* one application of a pure function: its input and output

vars == <<API_KEY, API_SECRET, token_cache, clock, task, lastSignIn, callStart, calc>>

EmptyCache == [token |-> None, expires |-> NoTime]

\* No call is being observed / no function is being applied.
NoCallStart ==
    [cache |-> EmptyCache, refreshed |-> FALSE, repeat |-> FALSE, afterFailure |-> FALSE]
NoCalc == [fn |-> "none"]

\* One operation call.  pc is where the coroutine is suspended:
\*   "idle"      no call has run in this slot yet
\*   "get_token" about to enter api_request / get_token
\*   "signin"    awaiting client.post (line 36)
\*   "send"      get_token has stored the token and is leaving its
\*               "async with" block (line 45); api_request has not yet
\*               issued its request
\*   "request"   awaiting client.request (line 52)
\*   "returned"  the handler has returned its text
\* The other fields are the locals of the coroutine and what it has done in
\* its current api_request call.
IdleTask ==
    [pc |-> "idle", h |-> "none", step |-> 0,
     now |-> 0,            \* the local `now` of get_token (line 31)
     token |-> None,       \* the token get_token returned (line 50)
     signIns |-> 0,        \* sign-in requests issued by get_token while it runs
     apiReqs |-> 0,        \* requests issued by the current api_request call
     bearer |-> None,      \* the token in the Authorization header of that request
     resp |-> NoResp,      \* the last HTTP outcome the call received
     tokErr |-> NoExc,     \* the exception get_token raised
     err |-> NoExc,        \* the exception api_request raised
     data |-> None,        \* what api_request returned (line 61 or 62)
     res |-> NoText]       \* the text the handler returned

\* ---------------------------------------------------------------- get_token
\* Python truthiness of a cached token: None and "" are false.
Truthy(v) == v # None /\ v # ""

\* Mutant of CredentialsMissing: "and" in place of "or".
CredentialsMissingBoth(key, secret) == key = "" /\ secret = ""

\* Line 28: not API_KEY or not API_SECRET
CredentialsMissing(key, secret) == key = "" \/ secret = ""

\* Mutant of CacheUsable: expires >= now in place of expires > now.
CacheUsableInclusive(cache, now) ==
    /\ Truthy(cache.token)
    /\ cache.expires # NoTime
    /\ cache.expires >= now

\* Mutant of CacheUsable: the cache is not consulted.
CacheUsableNever(cache, now) == FALSE

\* Mutant of CacheUsable: the expiry is not looked at.
CacheUsableForever(cache, now) == Truthy(cache.token)

\* Line 32: the cached token is returned when token and expires are set and
\* expires > now.
CacheUsable(cache, now) ==
    /\ Truthy(cache.token)
    /\ cache.expires # NoTime
    /\ cache.expires > now

\* Mutant of CacheWrite: the expiry counts from the time of the write.
CacheWriteFromClock(cache, tk, now) == [token |-> tk, expires |-> clock + Hour]

\* Mutant of CacheWrite: the task is suspended between the two assignments,
\* the expiry not yet written.
CacheWriteTorn(cache, tk, now) == [cache EXCEPT !.token = tk]

\* Lines 43-44: both entries of _token_cache are assigned with no await
\* between them.
CacheWrite(cache, tk, now) == [token |-> tk, expires |-> now + Hour]

\* Mutant of SignInError: resp.json().get("token") in place of
\* resp.json()["token"], so a body without a token raises nothing.
SignInErrorLenient(r) ==
    CASE r.t = "transport"                 -> Exc("ConnectError")
      [] ~IsSuccess(r)                     -> StatusExc(r)
      [] r.body \in {"notjson", "empty"}   -> Exc("JSONDecodeError")
      [] OTHER                             -> NoExc

\* Lines 36-42: what the sign-in exchange raises (NoExc when it yields a token).
SignInError(r) ==
    CASE r.t = "transport"                 -> Exc("ConnectError")
      [] ~IsSuccess(r)                     -> StatusExc(r)
      [] r.body \in {"notjson", "empty"}   -> Exc("JSONDecodeError")
      [] r.token = None                    -> Exc("KeyError")
      [] OTHER                             -> NoExc

\* -------------------------------------------------------------- api_request
\* Line 50: get_token is awaited outside any try block, so what it raises is
\* what api_request raises.
TokenErrorRaised(e) == e

\* Mutant of BearerOf: the header is built from the cache, not from the local.
BearerOfCache(tk, cache) == cache.token

\* Line 55: the Authorization header carries the local variable `token`.
BearerOf(tk, cache) == tk

\* Mutant of ApiError: only status 204 skips the parse ("or not resp.content"
\* left out), so an empty 200 body goes to resp.json().
ApiErrorParsesEmpty(r) ==
    CASE r.t = "transport"                          -> Exc("ConnectError")
      [] ~IsSuccess(r)                              -> StatusExc(r)
      [] r.status = 204                             -> NoExc
      [] r.body \in {"notjson", "empty"}            -> Exc("JSONDecodeError")
      [] OTHER                                      -> NoExc

\* Lines 59-62: what api_request raises on a response (NoExc when it returns).
ApiError(r) ==
    CASE r.t = "transport"                          -> Exc("ConnectError")
      [] ~IsSuccess(r)                              -> StatusExc(r)
      [] r.status = 204 \/ r.body = "empty"         -> NoExc
      [] r.body = "notjson"                         -> Exc("JSONDecodeError")
      [] OTHER                                      -> NoExc

\* Lines 60-62: what api_request returns: {"success": True} or the parsed body.
ApiData(r) ==
    IF r.status = 204 \/ r.body = "empty" THEN "success marker" ELSE r.body

\* ----------------------------------------------------------------- handlers
\* The outcome of one api_request call as its handler sees it.
Raised(e) == [exc |-> e, data |-> None]
Returned(d) == [exc |-> NoExc, data |-> d]

\* Mutant of Is404: the status code of the error is not looked at.
Is404AnyStatus(e) == IsInstance(e, "HTTPStatusError")

\* Lines 465 and 1232: an HTTPStatusError whose response has status 404.
Is404(e) == IsInstance(e, "HTTPStatusError") /\ e.status = 404

\* Mutant of early_get_me: the text is formatted after the try block, so the
\* KeyError of a body without the fields leaves the handler.
early_get_meFormatsOutsideTry(r) ==
    IF r.exc # NoExc THEN handle_error(r.exc)
    ELSE IF r.data = "obj" THEN Text("User: <name>")
    ELSE [form |-> "raised", code |-> 0, msg |-> Str(Exc("KeyError"))]

\* Lines 309-315.  data['name'] raises KeyError unless the object has the field.
early_get_me(r) ==
    IF r.exc # NoExc THEN handle_error(r.exc)
    ELSE IF r.data = "obj" THEN Text("User: <name>")
    ELSE handle_error(Exc("KeyError"))

\* Lines 433-469.
early_get_tracking(r) ==
    IF r.exc # NoExc
    THEN IF Is404(r.exc) THEN Text("No active tracking.") ELSE handle_error(r.exc)
    ELSE IF r.data = "emptyobj" THEN Text("No active tracking.")
    ELSE Text("## Currently Tracking")

\* Lines 1217-1282, second request (lines 1228-1233 and what follows): a 404
\* is swallowed and the summary is rendered without current tracking; the
\* "Currently tracking" line is there when the request returned an object
\* with an activity (line 1252).
early_today_summary(r) ==
    IF r.exc # NoExc /\ ~Is404(r.exc) THEN handle_error(r.exc)
    ELSE IF r.exc = NoExc /\ r.data = "obj"
    THEN Text("## Today's Summary, Currently tracking")
    ELSE Text("## Today's Summary")

\* Whether the handler goes on to another api_request after outcome r of its
\* step-th one (early_today_summary after its first request, lines 1224-1230).
Continues(h, step, r) ==
    h = "early_today_summary" /\ step = 1 /\ r.exc = NoExc

\* The text handler h returns after outcome r of its last api_request.
HandlerText(h, step, r) ==
    CASE h = "early_get_me"       -> early_get_me(r)
      [] h = "early_get_tracking" -> early_get_tracking(r)
      [] h = "early_today_summary" /\ step = 1 -> handle_error(r.exc)
      [] OTHER                    -> early_today_summary(r)

\* Mutant of AfterApiRequest: a transport failure is retried, the call going
\* back to the start of the same api_request.
AfterApiRequestRetries(t, r) ==
    IF IsInstance(r.exc, "TransportError")
    THEN [t EXCEPT !.pc = "get_token", !.now = 0, !.token = None]
    ELSE IF Continues(t.h, t.step, r)
    THEN [t EXCEPT !.pc = "get_token", !.step = 2, !.now = 0, !.token = None]
    ELSE [t EXCEPT !.pc = "returned", !.now = 0, !.token = None, !.bearer = None,
                   !.res = HandlerText(t.h, t.step, r)]

\* Task record t after outcome r of its current api_request.
AfterApiRequest(t, r) ==
    IF Continues(t.h, t.step, r)
    THEN [t EXCEPT !.pc = "get_token", !.step = 2, !.now = 0, !.token = None]
    ELSE [t EXCEPT !.pc = "returned", !.now = 0, !.token = None, !.bearer = None,
                   !.res = HandlerText(t.h, t.step, r)]

\* ------------------------------------------------------------------ actions
Init ==
    /\ API_KEY \in EnvValues
    /\ API_SECRET \in EnvValues
    /\ token_cache = EmptyCache
    /\ clock = 0
    /\ task = [p \in Calls |-> IdleTask]
    /\ lastSignIn = EmptyCache
    /\ callStart = NoCallStart
    /\ calc = NoCalc

\* The framework invokes handler h; the coroutine is scheduled.
Call(p, h) ==
    /\ task[p].pc \in {"idle", "returned"}
    /\ task' = [task EXCEPT ![p] = [IdleTask EXCEPT !.pc = "get_token", !.h = h, !.step = 1]]
    /\ UNCHANGED <<API_KEY, API_SECRET, token_cache, clock, lastSignIn>>

\* api_request starts and runs get_token up to its first await (lines 50,
\* 28-36); on a cache hit api_request goes on to issue its request (51-57).
GetToken(p) ==
    LET t == [task[p] EXCEPT !.signIns = 0, !.apiReqs = 0,
                             !.bearer = None, !.resp = NoResp,
                             !.tokErr = NoExc, !.err = NoExc, !.data = None]
    IN
    /\ task[p].pc = "get_token"
    /\ IF CredentialsMissing(API_KEY, API_SECRET)
       THEN LET e == Exc("ValueError")
                u == [t EXCEPT !.tokErr = e, !.err = TokenErrorRaised(e)]
            IN task' = [task EXCEPT ![p] = AfterApiRequest(u, Raised(u.err))]
       ELSE IF CacheUsable(token_cache, clock)
       THEN task' = [task EXCEPT ![p] =
                        [t EXCEPT !.pc = "request",
                                  !.token = token_cache.token,
                                  !.apiReqs = 1,
                                  !.bearer = BearerOf(token_cache.token, token_cache)]]
       ELSE task' = [task EXCEPT ![p] =
                        [t EXCEPT !.pc = "signin", !.now = clock, !.signIns = 1]]
    /\ UNCHANGED <<API_KEY, API_SECRET, token_cache, clock, lastSignIn>>

\* The sign-in exchange ends with outcome r (lines 36-45).
SignInResponse(p, r) ==
    /\ task[p].pc = "signin"
    /\ LET e == SignInError(r)
           t == [task[p] EXCEPT !.resp = r]
       IN IF e # NoExc
          THEN /\ LET u == [t EXCEPT !.tokErr = e, !.err = TokenErrorRaised(e)]
                  IN task' = [task EXCEPT ![p] = AfterApiRequest(u, Raised(u.err))]
               /\ UNCHANGED <<token_cache, lastSignIn>>
          ELSE /\ token_cache' = CacheWrite(token_cache, r.token, task[p].now)
               /\ lastSignIn' = [token |-> r.token, expires |-> task[p].now + Hour]
               /\ task' = [task EXCEPT ![p] =
                              [t EXCEPT !.pc = "send", !.token = r.token, !.now = 0]]
    /\ UNCHANGED <<API_KEY, API_SECRET, clock>>

\* api_request issues its request with the token get_token returned (51-57).
SendRequest(p) ==
    /\ task[p].pc = "send"
    /\ task' = [task EXCEPT ![p] =
                   [@ EXCEPT !.pc = "request", !.signIns = 0, !.apiReqs = @ + 1,
                             !.bearer = BearerOf(task[p].token, token_cache)]]
    /\ UNCHANGED <<API_KEY, API_SECRET, token_cache, clock, lastSignIn>>

\* The API exchange ends with outcome r (lines 52-62) and the handler goes on.
ApiResponse(p, r) ==
    /\ task[p].pc = "request"
    /\ LET e == ApiError(r)
           t == [task[p] EXCEPT !.resp = r, !.err = e,
                                !.data = IF e = NoExc THEN ApiData(r) ELSE None]
       IN task' = [task EXCEPT ![p] =
                      AfterApiRequest(t, IF e # NoExc THEN Raised(e) ELSE Returned(ApiData(r)))]
    /\ UNCHANGED <<API_KEY, API_SECRET, token_cache, clock, lastSignIn>>

\* Time passes.
Tick ==
    /\ clock < MaxTime
    /\ clock' = clock + 1
    /\ UNCHANGED <<API_KEY, API_SECRET, token_cache, task, lastSignIn>>

\* The handlers called in any order by two concurrent callers.
Next ==
    \/ \E p \in Calls, h \in Handlers : Call(p, h) /\ UNCHANGED <<callStart, calc>>
    \/ \E p \in Calls : GetToken(p) /\ UNCHANGED <<callStart, calc>>
    \/ \E p \in Calls, r \in SignInOutcomes :
            SignInResponse(p, r) /\ UNCHANGED <<callStart, calc>>
    \/ \E p \in Calls : SendRequest(p) /\ UNCHANGED <<callStart, calc>>
    \/ \E p \in Calls, r \in ApiOutcomes :
            ApiResponse(p, r) /\ UNCHANGED <<callStart, calc>>
    \/ Tick /\ UNCHANGED <<callStart, calc>>

Spec == Init /\ [][Next]_vars

\* ------------------------------------------------- one caller, call by call
\* The same handlers with a single caller: each call runs to its return
\* before the next one starts, so every change of the cache between the start
\* of a call and its return is the call's own.  callStart records the cache
\* as the call found it, whether the call has stored a token of its own,
\* whether the call repeats the one before it (same handler, the one before
\* ended without an error), and whether the call before it ended in an error.
Caller == "c1"

SeqCall(h) ==
    /\ Call(Caller, h)
    /\ callStart' = [cache |-> token_cache, refreshed |-> FALSE,
                     repeat |-> /\ task[Caller].pc = "returned"
                                /\ task[Caller].h = h
                                /\ task[Caller].err = NoExc,
                     afterFailure |-> /\ task[Caller].pc = "returned"
                                      /\ task[Caller].err # NoExc]
    /\ UNCHANGED calc

SeqSignInResponse(r) ==
    /\ SignInResponse(Caller, r)
    /\ callStart' = [callStart EXCEPT !.refreshed = @ \/ task'[Caller].pc = "send"]
    /\ UNCHANGED calc

\* The steps of the call in progress.
SeqProgress ==
    \/ GetToken(Caller) /\ UNCHANGED <<callStart, calc>>
    \/ \E r \in SignInOutcomes : SeqSignInResponse(r)
    \/ SendRequest(Caller) /\ UNCHANGED <<callStart, calc>>
    \/ \E r \in ApiOutcomes : ApiResponse(Caller, r) /\ UNCHANGED <<callStart, calc>>

SeqNext ==
    \/ \E h \in Handlers : SeqCall(h)
    \/ SeqProgress
    \/ Tick /\ UNCHANGED <<callStart, calc>>

SeqSpec == Init /\ [][SeqNext]_vars

\* ------------------------------------------------------------- scheduling
\* What the event loop and the HTTP client guarantee to a call: a coroutine
\* that is ready to run is run (GetToken, SendRequest), and every HTTP
\* exchange ends, with a response or with a failure, the 30-second timeout
\* (lines 40, 57) being the latest (SignInResponse, ApiResponse).  Nothing
\* obliges the framework to call a handler or the clock to advance.  A call
\* never waits for another call (there is no lock, queue or shared future in
\* the module), so one caller is followed.
LiveSpec == SeqSpec /\ WF_vars(SeqProgress)

\* ---------------------------------------------------------- format_duration
\* A timestamp argument: None, a string that is no ISO timestamp, or an ISO
\* timestamp "YYYY-MM-DDTHH:MM:SS" read as secs (seconds on the wall clock it
\* shows), followed or not by a fraction ".fff" and by a zone suffix.
StampSecs == {0, 59, 3600, 5400}
Zones == {"none", "Z", "+01:00"}
NoStamp == [form |-> "None", secs |-> 0, frac |-> FALSE, zone |-> "none"]
BadStamp == [form |-> "bad", secs |-> 0, frac |-> FALSE, zone |-> "none"]
Ts(s, f, z) == [form |-> "iso", secs |-> s, frac |-> f, zone |-> z]
IsoStamps == {Ts(s, f, z) : s \in StampSecs, f \in BOOLEAN, z \in Zones}
Stamps == IsoStamps \cup {NoStamp, BadStamp}

\* Seconds east of UTC that a zone suffix stands for.
ZoneOffset(z) == IF z = "+01:00" THEN 3600 ELSE 0

\* str.replace("Z", "+00:00")
ReplaceZ(ts) == [ts EXCEPT !.zone = IF @ = "Z" THEN "+00:00" ELSE @]

\* str.split(".")[0]: the text before the first ".", so a fraction goes and
\* with it whatever follows it, the zone suffix included.
SplitDot(ts) == IF ts.frac THEN [ts EXCEPT !.frac = FALSE, !.zone = "none"] ELSE ts

\* datetime.fromisoformat: a ValueError for what is no ISO timestamp, a naive
\* datetime for a timestamp without a zone suffix, an aware one (t counted in
\* UTC) with a suffix.
fromisoformat(ts) ==
    IF ts.form # "iso" THEN [ok |-> FALSE, aware |-> FALSE, t |-> 0]
    ELSE IF ts.zone = "none" THEN [ok |-> TRUE, aware |-> FALSE, t |-> ts.secs]
    ELSE [ok |-> TRUE, aware |-> TRUE, t |-> ts.secs - ZoneOffset(ts.zone)]

\* What format_duration returns: "?" or "<hours>h <minutes>m".
Sentinel == [text |-> "?", h |-> 0, m |-> 0]
Pending == [text |-> "pending", h |-> 0, m |-> 0]
HoursMinutes(hours, minutes) == [text |-> "<H>h <M>m", h |-> hours, m |-> minutes]

\* Lines 68-69: fromisoformat(x.replace("Z", "+00:00").split(".")[0]); None
\* has no replace (AttributeError).
ParseDurationStamp(ts) ==
    IF ts.form = "None" THEN [ok |-> FALSE, aware |-> FALSE, t |-> 0]
    ELSE fromisoformat(SplitDot(ReplaceZ(ts)))

\* Lines 65-75.  Subtracting a naive and an aware datetime raises TypeError;
\* the bare except turns every exception into "?".  divmod and // round
\* towards minus infinity, as \div and % do.
format_duration(start, stop) ==
    LET s == ParseDurationStamp(start)
        e == ParseDurationStamp(stop)
        delta == e.t - s.t
        hours == delta \div 3600
        remainder == delta % 3600
        minutes == remainder \div 60
    IN IF ~s.ok \/ ~e.ok \/ s.aware # e.aware THEN Sentinel
       ELSE HoursMinutes(hours, minutes)

\* The program state of a specification that applies one pure function: the
\* module as imported, no call made.
ModuleImported ==
    /\ API_KEY = "set" /\ API_SECRET = "set"
    /\ token_cache = EmptyCache
    /\ clock = 0
    /\ task = [p \in Calls |-> IdleTask]
    /\ lastSignIn = EmptyCache
    /\ callStart = NoCallStart

DurationInit ==
    /\ ModuleImported
    /\ calc \in {[fn |-> "format_duration", start |-> a, stop |-> b, out |-> Pending] :
                    a \in Stamps, b \in Stamps}

ApplyFormatDuration ==
    /\ calc.fn = "format_duration" /\ calc.out = Pending
    /\ calc' = [calc EXCEPT !.out = format_duration(calc.start, calc.stop)]
    /\ UNCHANGED <<API_KEY, API_SECRET, token_cache, clock, task, lastSignIn, callStart>>

DurationNext == ApplyFormatDuration

DurationSpec == DurationInit /\ [][DurationNext]_vars

\* -------------------------------------------------------------- aggregation
\* The loop of early_generate_report (lines 1181-1194) and of
\* early_today_summary (lines 1235-1248), the same text in both.
\* A time entry: the name of its activity (None when the entry has none) and
\* duration.startedAt / duration.stoppedAt, in the form the API writes them
\* ("...T10:00:00.000"), unparseable, or missing.
MaxEntries == 4
ActivityNames == {"A", "B"}
EntryStart == Ts(0, TRUE, "none")
EntryStops == {Ts(1800, TRUE, "none"), Ts(3600, TRUE, "none"), BadStamp, NoStamp}
Entry(n, a, b) == [name |-> n, startedAt |-> a, stoppedAt |-> b]
Entries ==
    {Entry(n, EntryStart, b) : n \in ActivityNames, b \in EntryStops}
        \cup {Entry(n, BadStamp, Ts(1800, TRUE, "none")) : n \in ActivityNames}
        \cup {Entry(None, EntryStart, Ts(1800, TRUE, "none"))}
EntryLists == UNION {[1..n -> Entries] : n \in 0..MaxEntries}

\* e.get("activity", {}).get("name", "Unknown")
ActivityName(e) == IF e.name = None THEN "Unknown" ELSE e.name

\* Lines 1188-1189: fromisoformat(x.split(".")[0]); a missing key raises
\* KeyError.
ParseEntryStamp(ts) ==
    IF ts.form = "None" THEN [ok |-> FALSE, aware |-> FALSE, t |-> 0]
    ELSE fromisoformat(SplitDot(ts))

\* by_activity.get(name, 0)
Get(by, name) == IF name \in DOMAIN by THEN by[name] ELSE 0
\* by_activity[name] = v
Put(by, name, v) == [n \in DOMAIN by \cup {name} |-> IF n = name THEN v ELSE by[n]]

NoTotals == [by |-> <<>>, total |-> 0]

\* Mutant of AggregateEntry: the label is entered into by_activity before the
\* try block, with 0 seconds.
AggregateEntryLabelFirst(acc, e) ==
    LET name == ActivityName(e)
        s == ParseEntryStamp(e.startedAt)
        t == ParseEntryStamp(e.stoppedAt)
        secs == t.t - s.t
        by == Put(acc.by, name, Get(acc.by, name))
    IN IF ~s.ok \/ ~t.ok \/ s.aware # t.aware THEN [acc EXCEPT !.by = by]
       ELSE [by |-> Put(by, name, Get(by, name) + secs), total |-> acc.total + secs]

\* One pass of the loop body (lines 1185-1194): any exception in the try
\* block leaves by_activity and total_seconds as they were.
AggregateEntry(acc, e) ==
    LET name == ActivityName(e)
        s == ParseEntryStamp(e.startedAt)
        t == ParseEntryStamp(e.stoppedAt)
        secs == t.t - s.t
    IN IF ~s.ok \/ ~t.ok \/ s.aware # t.aware THEN acc
       ELSE [by |-> Put(acc.by, name, Get(acc.by, name) + secs),
             total |-> acc.total + secs]

\* The loop over entries[i..], from the totals acc.
RECURSIVE AggregateFrom(_, _, _)
AggregateFrom(acc, entries, i) ==
    IF i > Len(entries) THEN acc
    ELSE AggregateFrom(AggregateEntry(acc, entries[i]), entries, i + 1)

Aggregate(entries) == AggregateFrom(NoTotals, entries, 1)

AggregateInit ==
    /\ ModuleImported
    /\ calc \in {[fn |-> "aggregate", entries |-> es, out |-> Pending] : es \in EntryLists}

ApplyAggregate ==
    /\ calc.fn = "aggregate" /\ calc.out = Pending
    /\ calc' = [calc EXCEPT !.out = Aggregate(calc.entries)]
    /\ UNCHANGED <<API_KEY, API_SECRET, token_cache, clock, task, lastSignIn, callStart>>

AggregateNext == ApplyAggregate

AggregateSpec == AggregateInit /\ [][AggregateNext]_vars

\* ---------------------------------------------------- early_generate_report
\* Lines 1176-1206: what the handler makes of data["timeEntries"].
\* Entries of the report: stop times before, at and after the start (whole
\* seconds -1800, 0, 1800, 3600), and an entry that does not parse.
ReportNames == {"A", "B"}
ReportSpans ==
    {<<Ts(1800, TRUE, "none"), Ts(0, TRUE, "none")>>,
     <<Ts(0, TRUE, "none"), Ts(0, TRUE, "none")>>,
     <<Ts(0, TRUE, "none"), Ts(1800, TRUE, "none")>>,
     <<Ts(0, TRUE, "none"), Ts(3600, TRUE, "none")>>}
ReportEntries ==
    {Entry(n, d[1], d[2]) : n \in ReportNames, d \in ReportSpans}
        \cup {Entry("C", Ts(0, TRUE, "none"), Ts(1800, TRUE, "none")),
              Entry("A", Ts(0, TRUE, "none"), BadStamp)}
ReportLists == UNION {[1..n -> ReportEntries] : n \in 0..MaxEntries}

\* The keys of by_activity in the order they were inserted (a dict keeps it):
\* the names of the entries that got past the try block, first occurrence
\* first.
RECURSIVE InsertionOrder(_, _, _)
InsertionOrder(acc, entries, i) ==
    IF i > Len(entries) THEN <<>>
    ELSE LET next == AggregateEntry(acc, entries[i])
             name == ActivityName(entries[i])
             rest == InsertionOrder(next, entries, i + 1)
         IN IF name \in DOMAIN next.by /\ name \notin DOMAIN acc.by
            THEN <<name>> \o rest
            ELSE rest

\* sorted(items, key=lambda x: -x[1]): item x goes behind every item of the
\* sorted sequence whose seconds are not smaller (the sort is stable).
RECURSIVE InsertSorted(_, _)
InsertSorted(sorted, x) ==
    IF sorted = <<>> THEN <<x>>
    ELSE IF Head(sorted).secs >= x.secs
         THEN <<Head(sorted)>> \o InsertSorted(Tail(sorted), x)
         ELSE <<x>> \o sorted

RECURSIVE SortedItems(_, _, _)
SortedItems(by, order, i) ==
    IF i = 0 THEN <<>>
    ELSE InsertSorted(SortedItems(by, order, i - 1),
                      [name |-> order[i], secs |-> by[order[i]]])

\* A quotient secs / total * 100 as the fraction num/den, and what Python
\* raises when the divisor is 0.
ZeroDivision == [num |-> 0, den |-> 0]
ZeroPercent == [num |-> 0, den |-> 1]
Quotient100(secs, total) ==
    IF total = 0 THEN ZeroDivision ELSE [num |-> secs * 100, den |-> total]

\* Mutant of Percent: the division is not guarded.
PercentUnguarded(secs, total) == Quotient100(secs, total)

\* Line 1201: (secs / total_seconds * 100) if total_seconds else 0
Percent(secs, total) == IF total # 0 THEN Quotient100(secs, total) ELSE ZeroPercent

\* Lines 1176-1206.  The ZeroDivisionError of a division by 0 would reach
\* the except of line 1209 and come back as an error text.
early_generate_report(entries) ==
    IF entries = <<>>
    THEN [text |-> "No entries in report", lines |-> <<>>, total |-> 0, count |-> 0]
    ELSE LET agg == Aggregate(entries)
             order == InsertionOrder(NoTotals, entries, 1)
             items == SortedItems(agg.by, order, Len(order))
             lines == [i \in 1..Len(items) |->
                          [name |-> items[i].name, secs |-> items[i].secs,
                           pct |-> Percent(items[i].secs, agg.total)]]
         IN IF \E i \in 1..Len(lines) : lines[i].pct = ZeroDivision
            THEN [text |-> "Error: <msg>", lines |-> <<>>, total |-> 0, count |-> 0]
            ELSE [text |-> "## Report", lines |-> lines, total |-> agg.total,
                  count |-> Len(entries)]

ReportInit ==
    /\ ModuleImported
    /\ calc \in {[fn |-> "early_generate_report", entries |-> es, out |-> Pending] :
                    es \in ReportLists}

ApplyReport ==
    /\ calc.fn = "early_generate_report" /\ calc.out = Pending
    /\ calc' = [calc EXCEPT !.out = early_generate_report(calc.entries)]
    /\ UNCHANGED <<API_KEY, API_SECRET, token_cache, clock, task, lastSignIn, callStart>>

ReportNext == ApplyReport

ReportSpec == ReportInit /\ [][ReportNext]_vars

\* ------------------------------------------------------------ elapsed time
\* The elapsed time of the running timer, lines 445-452 of early_get_tracking
\* and 1256-1265 of early_today_summary.
\* datetime.fromisoformat before Python 3.11 raises ValueError on a "Z"
\* suffix; from 3.11 on it reads it as UTC.
fromisoformatBefore311(ts) ==
    IF ts.form = "iso" /\ ts.zone = "Z"
    THEN [ok |-> FALSE, aware |-> FALSE, t |-> 0]
    ELSE fromisoformat(ts)

\* Lines 446 and 1257: fromisoformat(started.split(".")[0]), with no
\* replace("Z", "+00:00") before it; None has no split (AttributeError).
ParseStartedStamp(ts, py311) ==
    IF ts.form = "None" THEN [ok |-> FALSE, aware |-> FALSE, t |-> 0]
    ELSE IF py311 THEN fromisoformat(SplitDot(ts))
    ELSE fromisoformatBefore311(SplitDot(ts))

\* The readings of datetime.now() (naive, seconds on the wall clock).
NowSecs == {5400, 7200}
\* What is shown when the elapsed time cannot be computed: "?" in
\* early_get_tracking (line 452), the line without a time in
\* early_today_summary (line 1264).
NoElapsed == [text |-> "", h |-> 0, m |-> 0]
ElapsedDefault(h) == IF h = "early_get_tracking" THEN Sentinel ELSE NoElapsed

\* Lines 445-452 and 1256-1265: datetime.now() is naive, so subtracting an
\* aware start raises TypeError; the bare except gives the default.
Elapsed(h, started, now, py311) ==
    LET s == ParseStartedStamp(started, py311)
        elapsed == now - s.t
    IN IF ~s.ok \/ s.aware THEN ElapsedDefault(h)
       ELSE HoursMinutes(elapsed \div 3600, (elapsed % 3600) \div 60)

ElapsedInit ==
    /\ ModuleImported
    /\ calc \in {[fn |-> "elapsed", h |-> h, started |-> a, now |-> n,
                   py311 |-> v, out |-> Pending] :
                    h \in {"early_get_tracking", "early_today_summary"},
                    a \in Stamps, n \in NowSecs, v \in BOOLEAN}

ApplyElapsed ==
    /\ calc.fn = "elapsed" /\ calc.out = Pending
    /\ calc' = [calc EXCEPT !.out = Elapsed(calc.h, calc.started, calc.now, calc.py311)]
    /\ UNCHANGED <<API_KEY, API_SECRET, token_cache, clock, task, lastSignIn, callStart>>

ElapsedNext == ApplyElapsed

ElapsedSpec == ElapsedInit /\ [][ElapsedNext]_vars

\* ---------------------------------------------------- early_edit_time_entry
\* The optional parameters of EditTimeEntryInput (lines 148-151): None (the
\* default, and what a JSON null is validated to), the empty string, or a text.
EditValues == {None, "", "x"}
EditParams ==
    [activity_id : EditValues, started_at : EditValues,
     stopped_at : EditValues, note : EditValues]

\* A key that is not in the body, and the JSON null.
Absent == "<absent>"
JsonNull == "null"

\* Lines 661-669: the PATCH body, key by key.  A key is set when the
\* parameter is truthy; "note" is set when the parameter is not None, to
\* {"text": note} for a non-empty text and to None (JSON null) for "".
early_edit_time_entry(params) ==
    [activityId |-> IF Truthy(params.activity_id) THEN params.activity_id ELSE Absent,
     startedAt  |-> IF Truthy(params.started_at) THEN params.started_at ELSE Absent,
     stoppedAt  |-> IF Truthy(params.stopped_at) THEN params.stopped_at ELSE Absent,
     note       |-> IF params.note = None THEN Absent
                    ELSE IF Truthy(params.note) THEN params.note
                    ELSE JsonNull]

EditInit ==
    /\ ModuleImported
    /\ calc \in {[fn |-> "early_edit_time_entry", params |-> ps, out |-> Pending] :
                    ps \in EditParams}

ApplyEdit ==
    /\ calc.fn = "early_edit_time_entry" /\ calc.out = Pending
    /\ calc' = [calc EXCEPT !.out = early_edit_time_entry(calc.params)]
    /\ UNCHANGED <<API_KEY, API_SECRET, token_cache, clock, task, lastSignIn, callStart>>

EditNext == ApplyEdit

EditSpec == EditInit /\ [][EditNext]_vars

\* ------------------------------------------------------------------- claims
\* Vocabulary of the claims.
NoCredentials == API_KEY = "" \/ API_SECRET = ""
\* Task p took a step (each action changes the record of exactly one task).
Stepped(p) == task'[p] # task[p]
\* The two texts handle_error produces.
IsErrorText(x) == x.form \in {"Error: <msg>", "Error <status>: <msg>"}
\* A cached token exists and its expiry is strictly later than the time t.
CachedAndFresh(t) == token_cache.token \in Tokens /\ token_cache.expires > t
\* A sign-in outcome that is a failure: transport failure, non-2xx status, or
\* a 2xx body that holds no token.
SignInFailed(r) == r.t = "transport" \/ r.status \notin 200..299 \/ r.token = None

\* C1: when the API key or the API secret is empty, no call ever has an HTTP
\* exchange (sign-in or API) issued or in flight, the cache is never touched,
\* and every handler that has returned has returned the error text of the
\* credentials error raised by get_token.
C1_NoCredentialsFailFast ==
    NoCredentials =>
        /\ token_cache = EmptyCache
        /\ \A p \in Calls :
            /\ task[p].pc \in {"idle", "get_token", "returned"}
            /\ task[p].signIns = 0 /\ task[p].apiReqs = 0
            /\ task[p].resp = NoResp
            /\ task[p].pc = "returned" =>
                /\ task[p].tokErr = Exc("ValueError")
                /\ task[p].err = Exc("ValueError")
                /\ task[p].res.form = "Error: <msg>"
                /\ task[p].res.msg = Str(Exc("ValueError"))

\* C1 witness: with the secret missing (the key set), a handler has returned
\* the credentials error.
C1_Witness ==
    /\ API_KEY = "set" /\ API_SECRET = ""
    /\ \E p \in Calls : task[p].pc = "returned" /\ task[p].res.form = "Error: <msg>"

\* C2: with credentials present, a get_token call returns the cached token
\* with no sign-in request exactly when a token is cached and its expiry is
\* strictly later than now; otherwise it issues a sign-in request.
C2_CacheHitIffFresh ==
    [][\A p \in Calls :
        (task[p].pc = "get_token" /\ Stepped(p) /\ ~NoCredentials) =>
            /\ (/\ task'[p].pc = "request"
                /\ task'[p].signIns = 0
                /\ task'[p].token = token_cache.token) <=> CachedAndFresh(clock)
            /\ ~CachedAndFresh(clock) => task'[p].pc = "signin"
            /\ token_cache' = token_cache]_vars

\* C2 witness: early_today_summary is in its second api_request and that
\* call's get_token was served from the cache (no sign-in response on record),
\* the token expiring one hour ahead.
C2_Witness ==
    \E p \in Calls :
        /\ task[p].h = "early_today_summary" /\ task[p].step = 2
        /\ task[p].pc = "request" /\ task[p].resp = NoResp
        /\ task[p].token = token_cache.token
        /\ token_cache.expires = clock + Hour

\* C3: with credentials present and no usable cached token, a get_token call
\* issues exactly one sign-in request; when the exchange succeeds the cache
\* holds the returned token with expiry (the call's now) + 1 hour and the call
\* returns that same token, having issued no further sign-in.
C3_RefreshOnceAndStore ==
    [][\A p \in Calls :
        /\ (task[p].pc = "get_token" /\ Stepped(p) /\ ~NoCredentials
                /\ ~CachedAndFresh(clock)) =>
              (task'[p].pc = "signin" /\ task'[p].signIns = 1 /\ task'[p].now = clock)
        /\ (task[p].pc = "signin" /\ Stepped(p) /\ ~SignInFailed(task'[p].resp)) =>
              /\ task'[p].pc = "send"
              /\ task'[p].signIns = 1
              /\ task'[p].token = task'[p].resp.token
              /\ token_cache' = [token |-> task'[p].resp.token,
                                 expires |-> task[p].now + Hour]]_vars

\* C3 witness: a sign-in has succeeded after the clock moved on during the
\* exchange: the cache holds the returned token and an expiry one hour after
\* the time the call started, which is not one hour after the current time.
C3_Witness ==
    \E p \in Calls :
        /\ task[p].pc = "send" /\ task[p].signIns = 1
        /\ token_cache.token = task[p].token
        /\ token_cache.expires < clock + Hour

\* C4: when the sign-in exchange fails, get_token raises the error of that
\* failure, the cache is left exactly as it was, the call has issued one
\* sign-in and issues no other (the handler returns), and a later get_token
\* call that finds no usable token issues a sign-in again.
C4_SignInFailure ==
    [][\A p \in Calls :
        /\ (task[p].pc = "signin" /\ Stepped(p) /\ SignInFailed(task'[p].resp)) =>
              /\ token_cache' = token_cache
              /\ task'[p].pc = "returned"
              /\ task'[p].signIns = 1 /\ task'[p].apiReqs = 0
              /\ task'[p].tokErr # NoExc
              /\ LET r == task'[p].resp
                     e == task'[p].tokErr
                 IN /\ r.t = "transport" => IsInstance(e, "TransportError")
                    /\ (r.t = "http" /\ r.status \notin 200..299) =>
                          (IsInstance(e, "HTTPStatusError") /\ e.status = r.status)
        /\ (/\ task[p].pc = "get_token" /\ Stepped(p) /\ ~NoCredentials
            /\ ~CachedAndFresh(clock)
            /\ \E q \in Calls : task[q].pc = "returned" /\ task[q].tokErr # NoExc) =>
              task'[p].pc = "signin"]_vars

\* C4 witness: a call has returned after a sign-in that answered 2xx without
\* a token, the cache is still empty, and the other call is signing in.
C4_Witness ==
    \E p, q \in Calls :
        /\ task[p].pc = "returned" /\ task[p].resp = HttpResp(200, "emptyobj")
        /\ task[p].tokErr = Exc("KeyError")
        /\ token_cache = EmptyCache
        /\ task[q].pc = "signin"

\* C5: in every state (each is a point where another call can run) the cached
\* token and the cached expiry are both unset, or are the token and the expiry
\* of one and the same completed sign-in.
C5_CacheNeverTorn ==
    \/ token_cache = EmptyCache
    \/ /\ token_cache.token \in Tokens
       /\ token_cache.expires # NoTime
       /\ token_cache = lastSignIn

\* C5 witness: two calls have both completed a sign-in, with different tokens
\* and started at different times, and the cache holds the later one's pair.
C5_Witness ==
    \E p, q \in Calls :
        /\ task[p].pc = "send" /\ task[q].pc = "send"
        /\ task[p].token # task[q].token
        /\ token_cache.token = task[q].token
        /\ token_cache.expires < clock + Hour

\* C6 as stated: at most one sign-in exchange is in flight at any time (the
\* refresh is performed once for all concurrent callers).
C6_SingleFlight ==
    Cardinality({p \in Calls : task[p].pc = "signin"}) <= 1

\* C6 as amended: the cache is not single-flight.  A get_token call that
\* finds no usable cached token issues its own sign-in, one and no more, also
\* while another call's sign-in is in flight; and every sign-in that succeeds
\* replaces the cache, also when another call has refreshed it meanwhile.
C6_OneSignInPerCaller ==
    [][\A p \in Calls :
        /\ (/\ task[p].pc = "get_token" /\ Stepped(p) /\ ~NoCredentials
            /\ ~CachedAndFresh(clock)
            /\ \E q \in Calls \ {p} : task[q].pc = "signin") =>
              (task'[p].pc = "signin" /\ task'[p].signIns = 1)
        /\ (/\ task[p].pc = "signin" /\ Stepped(p) /\ ~SignInFailed(task'[p].resp)
            /\ CachedAndFresh(clock)) =>
              /\ task'[p].signIns = 1
              /\ token_cache'.token = task'[p].resp.token
              /\ token_cache'.expires = task[p].now + Hour]_vars

\* C6 witness: both calls have a sign-in exchange in flight, started at
\* different times.
C6_Witness ==
    /\ \A p \in Calls : task[p].pc = "signin" /\ task[p].signIns = 1
    /\ \E p, q \in Calls : task[p].now < task[q].now

\* C7: when get_token has failed in a call, the call has issued no API
\* request, api_request has raised that same error, and the handler has
\* returned an error text (the failure reaches the caller as a failure).
C7_TokenFailureSurfaces ==
    \A p \in Calls :
        (task[p].pc = "returned" /\ task[p].tokErr # NoExc) =>
            /\ task[p].apiReqs = 0
            /\ task[p].err = task[p].tokErr
            /\ IsErrorText(task[p].res)

\* C8: every request api_request issues is the only one of that call and
\* carries the token get_token returned to it (the cached token on a hit, the
\* token of its own sign-in response otherwise); after the response, failure
\* or not, the count is still one, and on a failure the handler returns.
C8_OneRequestWithOwnToken ==
    [][\A p \in Calls :
        /\ (task'[p].pc = "request" /\ Stepped(p)) =>
              /\ task'[p].apiReqs = 1
              /\ task'[p].bearer \in Tokens
              /\ task'[p].bearer =
                    IF task[p].pc = "get_token" THEN token_cache.token
                    ELSE task[p].resp.token
        /\ (task[p].pc = "request" /\ Stepped(p)) =>
              /\ task'[p].apiReqs = 1
              /\ task'[p].pc \in {"returned", "get_token"}
              /\ (\/ task'[p].resp.t = "transport"
                  \/ task'[p].resp.status \notin 200..299
                  \/ task'[p].err # NoExc) => task'[p].pc = "returned"]_vars

\* C8 witness: a request is in flight carrying the token of the call's own
\* sign-in while the cache already holds another call's token.
C8_Witness ==
    \E p \in Calls :
        /\ task[p].pc = "request" /\ task[p].apiReqs = 1
        /\ task[p].bearer = task[p].resp.token
        /\ task[p].bearer # token_cache.token

\* C9: for every exchange of a call that ended in a non-2xx response, what
\* api_request raises is a status error with that status (404 included), which
\* handle_error renders as "Error <status>: <msg>" with the message field of a
\* JSON error body when there is one and the generic description of the
\* status otherwise; for every network-level failure it is a transport error,
\* rendered as "Error: <cause>".
C9_ErrorMapping ==
    \A p \in Calls :
        LET r == task[p].resp
            e == task[p].err
            x == handle_error(e)
        IN /\ (r.t = "http" /\ r.status \notin 200..299) =>
                /\ IsInstance(e, "HTTPStatusError")
                /\ e.status = r.status
                /\ x.form = "Error <status>: <msg>"
                /\ x.code = r.status
                /\ x.msg = IF r.body = "msg" THEN "body.message" ELSE "status description"
                /\ (task[p].pc = "returned" /\ task[p].h = "early_get_me") => task[p].res = x
           /\ r.t = "transport" =>
                /\ IsInstance(e, "TransportError")
                /\ ~IsInstance(e, "HTTPStatusError")
                /\ x = [form |-> "Error: <msg>", code |-> 0, msg |-> "transport cause"]
                /\ task[p].pc = "returned" /\ task[p].res = x

\* C9 witness: early_get_me has returned "Error 500: <message of the body>"
\* for an API response 500 with a JSON body holding a message.
C9_Witness ==
    \E p \in Calls :
        /\ task[p].pc = "returned" /\ task[p].h = "early_get_me"
        /\ task[p].apiReqs = 1 /\ task[p].resp = HttpResp(500, "msg")
        /\ task[p].res = [form |-> "Error <status>: <msg>", code |-> 500,
                          msg |-> "body.message"]

\* C10: after a 2xx API response with non-empty content that is not JSON,
\* api_request has raised an error that is not the parser's own exception and
\* is of a kind apart from the credentials error (ValueError), the status
\* errors and the transport errors.
C10_InvalidResponseKind ==
    \A p \in Calls :
        (/\ task[p].apiReqs = 1 /\ task[p].resp.t = "http"
         /\ task[p].resp.status = 200 /\ task[p].resp.body = "notjson") =>
            /\ task[p].err # NoExc
            /\ task[p].err.cls # "JSONDecodeError"
            /\ ~IsInstance(task[p].err, "ValueError")
            /\ ~IsInstance(task[p].err, "HTTPStatusError")
            /\ ~IsInstance(task[p].err, "TransportError")

\* C11: after a 2xx API response with status 204 or with an empty body,
\* api_request has returned the success marker {"success": True} and has
\* raised nothing (the empty body was not given to the JSON parser); after
\* every other 2xx response whose body is JSON it has returned that body,
\* parsed.
C11_EmptyBodyIsSuccess ==
    \A p \in Calls :
        (/\ task[p].apiReqs = 1 /\ task[p].pc # "request"
         /\ task[p].resp.t = "http" /\ task[p].resp.status \in 200..299) =>
            IF task[p].resp.status = 204 \/ task[p].resp.body = "empty"
            THEN task[p].err = NoExc /\ task[p].data = "success marker"
            ELSE task[p].resp.body \in {"obj", "emptyobj"} =>
                    (task[p].err = NoExc /\ task[p].data = task[p].resp.body)

\* C11 witness: one call got 200 with an empty body and the other 204, and
\* api_request returned the success marker to both.
C11_Witness ==
    \E p, q \in Calls :
        /\ task[p].apiReqs = 1 /\ task[p].resp = HttpResp(200, "empty")
        /\ task[q].apiReqs = 1 /\ task[q].resp = HttpResp(204, "empty")
        /\ task[p].data = "success marker" /\ task[q].data = "success marker"

\* Vocabulary of C12.  The last HTTP outcome of a returned call was a status
\* failure / a failure of another kind (no credentials, transport failure,
\* malformed content, content without the fields the handler reads).
StatusFailure(t) == t.resp.t = "http" /\ t.resp.status \notin 200..299
OtherFailure(t) ==
    \/ NoCredentials
    \/ t.resp.t = "transport"
    \/ t.resp.t = "http" /\ t.resp.status \in 200..299 /\ t.resp.body = "notjson"
    \/ t.apiReqs = 0 /\ t.resp.t = "http" /\ t.resp.status \in 200..299
            /\ t.resp.token = None
    \/ t.apiReqs = 1 /\ t.h = "early_get_me" /\ t.resp.t = "http"
            /\ t.resp.status \in 200..299 /\ t.resp.body \in {"empty", "emptyobj"}
\* The texts a handler returns.
HandlerTexts ==
    {"Error: <msg>", "Error <status>: <msg>", "User: <name>",
     "No active tracking.", "## Currently Tracking", "## Today's Summary",
     "## Today's Summary, Currently tracking"}
\* A 404 in the places where a handler reads it as "nothing is tracked".
TrackingNotFound(t) ==
    /\ StatusFailure(t) /\ t.resp.status = 404
    /\ \/ t.h = "early_get_tracking"
       \/ t.h = "early_today_summary" /\ t.step = 2

\* C12 as stated: every handler that has returned has returned a text, a
\* status failure rendered as "Error <code>: <message>" with the code of the
\* response, and any other failure as "Error: <message>".  The status
\* failures looked at are those of the API exchange: the violation does not
\* rest on the sign-in 404 of C7.
C12_EveryFailureIsErrorText ==
    \A p \in Calls :
        task[p].pc = "returned" =>
            /\ task[p].res.form \in HandlerTexts
            /\ (StatusFailure(task[p]) /\ task[p].apiReqs = 1) =>
                  (/\ task[p].res.form = "Error <status>: <msg>"
                   /\ task[p].res.code = task[p].resp.status)
            /\ OtherFailure(task[p]) => task[p].res.form = "Error: <msg>"

\* C12 as amended: every handler that has returned has returned a text and
\* none has raised; a status failure is rendered as "Error <code>: <message>"
\* and any other failure as "Error: <message>", except a 404 in
\* early_get_tracking and in the tracking request of early_today_summary,
\* which is rendered as the text of "nothing is tracked", not as an error.
C12_FailuresRendered ==
    \A p \in Calls :
        task[p].pc = "returned" =>
            /\ task[p].res.form \in HandlerTexts
            /\ (StatusFailure(task[p]) /\ ~TrackingNotFound(task[p])) =>
                  (/\ task[p].res.form = "Error <status>: <msg>"
                   /\ task[p].res.code = task[p].resp.status)
            /\ TrackingNotFound(task[p]) => ~IsErrorText(task[p].res)
            /\ OtherFailure(task[p]) => task[p].res.form = "Error: <msg>"

\* C12 witness: early_today_summary has returned "Error 500: ..." for a 500
\* on its tracking request, and early_get_me has returned "Error: ..." for a
\* 200 whose body lacks the fields it reads.
C12_Witness ==
    \E p, q \in Calls :
        /\ task[p].pc = "returned" /\ task[p].h = "early_today_summary"
        /\ task[p].step = 2 /\ task[p].resp.status = 500
        /\ task[p].res.form = "Error <status>: <msg>" /\ task[p].res.code = 500
        /\ task[q].pc = "returned" /\ task[q].h = "early_get_me"
        /\ task[q].resp = HttpResp(200, "emptyobj")
        /\ task[q].res.form = "Error: <msg>"

\* Vocabulary of C13 and C14.  The last HTTP outcome of call record t was a
\* failure: a transport failure, a non-2xx status, a 2xx body that cannot be
\* parsed, or a sign-in answer without a token.
FailureOutcome(t) ==
    \/ t.resp.t = "transport"
    \/ StatusFailure(t)
    \/ t.resp.t = "http" /\ t.resp.body = "notjson"
    \/ t.apiReqs = 0 /\ t.resp.t = "http" /\ t.resp.token = None
\* The API exchange of call record t was answered 204 or with an empty body.
EmptyAnswer(t) ==
    /\ t.apiReqs = 1 /\ t.pc # "request"
    /\ t.resp.t = "http" /\ t.resp.status \in 200..299
    /\ (t.resp.status = 204 \/ t.resp.body = "empty")

\* C13 as stated: when a call has ended in a failure (sign-in failure,
\* transport failure, non-2xx status, unparseable body), the cached token and
\* expiry are those the call found when it started.
C13_FailedCallLeavesCache ==
    (task[Caller].pc = "returned" /\ FailureOutcome(task[Caller])) =>
        token_cache = callStart.cache

\* C13 as amended: the step at which a failure arrives leaves the cached
\* token and expiry as they were and ends the call; a call that has ended in
\* a failure leaves the cache as it found it unless its own sign-in had
\* succeeded before the failure, in which case the cache holds that sign-in's
\* token and expiry (and so differs from what the call found); and the call
\* after a failed one decides by the cache alone whether to sign in.
C13_FailureStepLeavesCache ==
    [][LET t == task[Caller]
           u == task'[Caller]
       IN /\ (Stepped(Caller) /\ t.pc \in {"signin", "request"} /\ FailureOutcome(u)) =>
                (token_cache' = token_cache /\ u.pc = "returned")
          /\ (u.pc = "returned" /\ FailureOutcome(u)) =>
                IF callStart'.refreshed
                THEN token_cache' = lastSignIn' /\ token_cache' # callStart'.cache
                ELSE token_cache' = callStart'.cache
          /\ (/\ t.pc = "get_token" /\ Stepped(Caller) /\ callStart.afterFailure
              /\ ~NoCredentials) =>
                IF CachedAndFresh(clock)
                THEN u.pc = "request" /\ u.token = token_cache.token
                ELSE u.pc = "signin"]_vars

\* C13 witness: a call that followed a failed one was served the cached
\* token, has itself ended in a failure, and the cache is as it found it.
C13_Witness ==
    /\ task[Caller].pc = "returned" /\ FailureOutcome(task[Caller])
    /\ task[Caller].apiReqs = 1
    /\ callStart.afterFailure /\ ~callStart.refreshed
    /\ token_cache = callStart.cache /\ token_cache.token \in Tokens

\* C14 as stated: when a call that was answered 204 or with an empty body,
\* or a call that repeats the GET call before it, has returned, the cached
\* token and expiry are those the call found when it started.
C14_CallsNeverMutateCache ==
    (/\ task[Caller].pc = "returned"
     /\ (EmptyAnswer(task[Caller]) \/ callStart.repeat)) =>
        token_cache = callStart.cache

\* C14 as amended: the step that handles a response, a 204 or an empty body
\* included, never changes the cache; a call answered 204 or with an empty
\* body, or repeating the GET call before it, that found a token still
\* unexpired at its return has issued no sign-in and leaves the cache as it
\* found it; such a call stores a token only by its own sign-in (it found no
\* usable token), and the cache then holds that sign-in's pair.
C14_ResponseNeverMutatesCache ==
    [][LET t == task[Caller]
           u == task'[Caller]
           c == callStart'.cache
       IN /\ (Stepped(Caller) /\ t.pc = "request") => token_cache' = token_cache
          /\ (u.pc = "returned" /\ (EmptyAnswer(u) \/ callStart'.repeat)) =>
                /\ (c.token \in Tokens /\ c.expires > clock') =>
                      (~callStart'.refreshed /\ token_cache' = c)
                /\ callStart'.refreshed => token_cache' = lastSignIn'
                /\ ~callStart'.refreshed => token_cache' = c]_vars

\* C14 witness: a call repeating the GET call before it was answered with an
\* empty body, the token it found is still unexpired, and the cache is as the
\* call found it.
C14_Witness ==
    /\ task[Caller].pc = "returned" /\ EmptyAnswer(task[Caller])
    /\ callStart.repeat /\ ~callStart.refreshed
    /\ token_cache = callStart.cache
    /\ token_cache.token \in Tokens /\ token_cache.expires > clock

\* Vocabulary of C15 and C16.  A timestamp the function is to accept, and the
\* instant it names (a timestamp without a suffix counted as UTC).
Parseable(ts) == ts.form = "iso"
Instant(ts) == ts.secs - ZoneOffset(ts.zone)
Applied(f) == calc.fn = f /\ calc.out # Pending

\* C15: format_duration is total: for two parseable timestamps d seconds
\* apart it returns "<H>h <M>m" with 0 <= M <= 59 and
\* H*3600 + M*60 <= d < H*3600 + M*60 + 60 (truncated to the minute), and
\* with a timestamp that is missing or unparseable it returns the sentinel.
C15_TruncatedOrSentinel ==
    Applied("format_duration") =>
        LET d == Instant(calc.stop) - Instant(calc.start)
            o == calc.out
        IN IF Parseable(calc.start) /\ Parseable(calc.stop)
           THEN /\ o.text = "<H>h <M>m"
                /\ o.m \in 0..59
                /\ o.h * 3600 + o.m * 60 <= d
                /\ d < o.h * 3600 + o.m * 60 + 60
           ELSE o = Sentinel

\* C16: for two timestamps, each with or without a fraction and with or
\* without a "Z" or an offset suffix, in any combination, format_duration
\* returns the hours and minutes of the time elapsed between the two
\* instants: not the sentinel, and not shifted by an offset.
C16_EveryFormAccepted ==
    (Applied("format_duration") /\ Parseable(calc.start) /\ Parseable(calc.stop)) =>
        LET d == Instant(calc.stop) - Instant(calc.start)
        IN calc.out = HoursMinutes(d \div 3600, (d % 3600) \div 60)

\* Vocabulary of C17.  The entries (by position) whose two timestamps parse,
\* the whole seconds between the two, and sums over sets.
ParseableEntries(es) ==
    {i \in 1..Len(es) : Parseable(es[i].startedAt) /\ Parseable(es[i].stoppedAt)}
EntrySeconds(e) == Instant(e.stoppedAt) - Instant(e.startedAt)
RECURSIVE SumSeconds(_, _)
SumSeconds(es, I) ==
    IF I = {} THEN 0
    ELSE LET i == CHOOSE j \in I : TRUE
         IN EntrySeconds(es[i]) + SumSeconds(es, I \ {i})
RECURSIVE SumTotals(_, _)
SumTotals(by, L) ==
    IF L = {} THEN 0
    ELSE LET l == CHOOSE k \in L : TRUE
         IN by[l] + SumTotals(by, L \ {l})

\* C17: the aggregation skips every entry whose timestamps are missing or do
\* not parse and sums the whole seconds of the others: the labels in the
\* result are exactly the labels of the parseable entries, the total of a
\* label is the sum over its parseable entries, and the grand total is the
\* sum of the totals of the labels.
C17_TotalsPerLabel ==
    Applied("aggregate") =>
        LET es == calc.entries
            o == calc.out
            P == ParseableEntries(es)
        IN /\ DOMAIN o.by = {ActivityName(es[i]) : i \in P}
           /\ \A l \in DOMAIN o.by :
                 o.by[l] = SumSeconds(es, {i \in P : ActivityName(es[i]) = l})
           /\ o.total = SumTotals(o.by, DOMAIN o.by)
           /\ o.total = SumSeconds(es, P)

\* C17 witness: 3600 s under A, 1800 s under B, 1800 s under A and an entry
\* of B without a stop time give A = 5400, B = 1800 and a total of 7200.
C17_Witness ==
    /\ Applied("aggregate")
    /\ calc.entries = <<Entry("A", EntryStart, Ts(3600, TRUE, "none")),
                        Entry("B", EntryStart, Ts(1800, TRUE, "none")),
                        Entry("A", EntryStart, Ts(1800, TRUE, "none")),
                        Entry("B", EntryStart, NoStamp)>>
    /\ calc.out.by["A"] = 5400 /\ calc.out.by["B"] = 1800
    /\ calc.out.total = 7200

\* C18: early_get_tracking returns "No active tracking." for a 404 and the
\* generic error text for every other failure; early_today_summary returns
\* its summary, without a line on current tracking, when its tracking request
\* (the second one) ends in a 404, and the generic error text when that
\* request fails in any other way; a 404 anywhere else is an error text like
\* any other status.
C18_NotFoundIsNoTracking ==
    \A p \in Calls :
        LET t == task[p]
            notFound == StatusFailure(t) /\ t.resp.status = 404
        IN t.pc = "returned" =>
            /\ (t.h = "early_get_tracking" /\ notFound) =>
                    t.res = Text("No active tracking.")
            /\ (t.h = "early_get_tracking" /\ FailureOutcome(t) /\ ~notFound) =>
                    t.res = handle_error(t.err)
            /\ (t.h = "early_today_summary" /\ t.step = 2 /\ notFound) =>
                    t.res = Text("## Today's Summary")
            /\ (t.h = "early_today_summary" /\ t.step = 2 /\ FailureOutcome(t)
                    /\ ~notFound) =>
                    (t.res = handle_error(t.err) /\ IsErrorText(t.res))
            /\ (notFound /\ ~TrackingNotFound(t)) =>
                    (t.res.form = "Error <status>: <msg>" /\ t.res.code = 404)

\* C18 witness: early_today_summary has returned its summary after a 404 on
\* its tracking request, and early_get_tracking has returned "No active
\* tracking." after a 404 of the API.
C18_Witness ==
    \E p, q \in Calls :
        /\ task[p].pc = "returned" /\ task[p].h = "early_today_summary"
        /\ task[p].step = 2 /\ task[p].apiReqs = 1 /\ task[p].resp.status = 404
        /\ task[p].res = Text("## Today's Summary")
        /\ task[q].pc = "returned" /\ task[q].h = "early_get_tracking"
        /\ task[q].apiReqs = 1 /\ task[q].resp.status = 404
        /\ task[q].res = Text("No active tracking.")

\* C19: in the PATCH body of early_edit_time_entry a note passed as null is
\* an explicit removal of the note ("note": null), a non-empty note text sets
\* the note, and the other fields are left out when they are not supplied.
C19_NullNoteRemoves ==
    Applied("early_edit_time_entry") =>
        LET ps == calc.params
            body == calc.out
        IN /\ ps.note = None => body.note = JsonNull
           /\ ps.note = "x" => body.note = "x"
           /\ ps.activity_id = None => body.activityId = Absent
           /\ ps.started_at = None => body.startedAt = Absent
           /\ ps.stopped_at = None => body.stoppedAt = Absent

\* Vocabulary of C20.  The call is in progress; the number of steps a call
\* can still take before it returns, at most (two api_request calls for
\* early_today_summary, each with a sign-in at most).
InProgress == task[Caller].pc \in {"get_token", "signin", "send", "request"}
StepsLeft(t) ==
    LET later == IF t.h = "early_today_summary" /\ t.step = 1 THEN 4 ELSE 0
    IN CASE t.pc = "get_token" -> later + 4
         [] t.pc = "signin"    -> later + 3
         [] t.pc = "send"      -> later + 2
         [] t.pc = "request"   -> later + 1
         [] OTHER              -> 0

\* C20: a call in progress eventually returns its text, given that each HTTP
\* exchange ends; every step of a call brings it nearer to its return (no
\* exchange is issued again, there is no loop); and a call that has returned
\* has no exchange in flight and does nothing more: its record changes only
\* when the framework calls a handler again.
C20_EveryCallReturns ==
    /\ InProgress ~>
          (task[Caller].pc = "returned" /\ task[Caller].res.form \in HandlerTexts)
    /\ [][LET t == task[Caller]
               u == task'[Caller]
           IN /\ (InProgress /\ Stepped(Caller)) => StepsLeft(u) < StepsLeft(t)
              /\ (t.pc = "returned" /\ Stepped(Caller)) =>
                    (/\ u.pc = "get_token" /\ u.step = 1
                     /\ u.signIns = 0 /\ u.apiReqs = 0)]_vars

\* C20 witness: early_today_summary has returned its summary after its two
\* requests, the token having expired and been renewed on the way.
C20_Witness ==
    /\ task[Caller].pc = "returned" /\ task[Caller].h = "early_today_summary"
    /\ task[Caller].step = 2 /\ task[Caller].apiReqs = 1
    /\ task[Caller].res.form = "## Today's Summary, Currently tracking"
    /\ callStart.cache.token \in Tokens /\ callStart.refreshed

\* C21: the elapsed-time computation accepts a start timestamp exactly when
\* format_duration accepts it (the forms with a fraction, with "Z" and with
\* an offset included), giving the hours and minutes up to now, and gives
\* its default otherwise.
C21_ElapsedParsesAsFormatDuration ==
    Applied("elapsed") =>
        LET accepted == ParseDurationStamp(calc.started).ok
        IN IF accepted
           THEN calc.out.text = "<H>h <M>m"
           ELSE calc.out = ElapsedDefault(calc.h)

\* C22: for every list of entries the report is rendered without a division
\* by zero; its lines, one for each label with a parseable entry, are in
\* descending order of the labels' totals; and the percentage of a line is
\* its total divided by the grand total times 100 when the grand total is
\* not 0, and 0 when it is 0.
C22_SortedWithPercentages ==
    Applied("early_generate_report") =>
        LET es == calc.entries
            o == calc.out
            P == ParseableEntries(es)
            total == SumSeconds(es, P)
            labelTotal(l) == SumSeconds(es, {i \in P : ActivityName(es[i]) = l})
        IN /\ o.text # "Error: <msg>"
           /\ es = <<>> => o.text = "No entries in report"
           /\ es # <<>> =>
                /\ {o.lines[i].name : i \in 1..Len(o.lines)}
                        = {ActivityName(es[i]) : i \in P}
                /\ \A i, j \in 1..Len(o.lines) :
                      /\ i < j => o.lines[i].secs >= o.lines[j].secs
                      /\ i # j => o.lines[i].name # o.lines[j].name
                /\ \A i \in 1..Len(o.lines) :
                      LET x == o.lines[i]
                      IN /\ x.secs = labelTotal(x.name)
                         /\ x.pct.den # 0
                         /\ IF total = 0 THEN x.pct.num = 0
                            ELSE x.pct = [num |-> x.secs * 100, den |-> total]

\* C22 witness: the durations cancel out (1800 and -1800 seconds): a report
\* of two labels with a grand total of 0 and 0 percent each, the positive
\* total listed first and the negative one last.
C22_Witness ==
    /\ Applied("early_generate_report")
    /\ calc.out.text = "## Report" /\ calc.out.total = 0
    /\ Len(calc.out.lines) = 2
    /\ calc.out.lines[1].secs = 1800 /\ calc.out.lines[2].secs = -1800
    /\ \A i \in 1..2 : calc.out.lines[i].pct = ZeroPercent

\* C23 as stated: no step lowers the cached expiry; every cache write stores
\* an expiry that is greater than or equal to the one it replaces.
C23_ExpiryNeverMovesBack ==
    [][token_cache.expires # NoTime =>
            token_cache'.expires >= token_cache.expires]_vars

\* The time at which the get_token call of the last completed sign-in took
\* its now (line 31).
LastSignInStarted == lastSignIn.expires - Hour

\* C24: in every state a cached expiry is at most one hour after the current
\* time; and whenever get_token serves a token from the cache, that token is
\* the one of the last completed sign-in, whose get_token call took its now
\* less than one hour before.
C24_ExpiryWithinTheHour ==
    /\ [](token_cache.expires # NoTime => token_cache.expires <= clock + Hour)
    /\ [][\A p \in Calls :
            (task[p].pc = "get_token" /\ task'[p].pc = "request") =>
                /\ task'[p].token = lastSignIn.token
                /\ LastSignInStarted <= clock
                /\ clock - LastSignInStarted < Hour]_vars

\* C24 witness: a call holds a token it was served from the cache, the
\* sign-in that stored the token took its now before the current time, and
\* another call's sign-in is in flight that started earlier still.
C24_Witness ==
    \E p, q \in Calls :
        /\ task[p].pc = "request" /\ task[p].resp = NoResp
        /\ task[p].token = token_cache.token
        /\ token_cache.expires < clock + Hour
        /\ CachedAndFresh(clock)
        /\ task[q].pc = "signin" /\ task[q].now < LastSignInStarted

====
